---- MODULE Spec2Model ----
(***************************************************************************)
(* FairCoin: a stake-gated mining engine (Miner) and the wallet accounting *)
(* that feeds it (Wallet).  The miner is modelled from its handlers        *)
(* (startNewSearch, findProof, receiveBlock, the INIT_MINTING retry        *)
(* timer); the wallet from its selection and coin-age functions.           *)
(***************************************************************************)
EXTENDS Integers, Sequences, FiniteSets, TLC

(***************************************************************************)
(* Program constants.                                                      *)
(***************************************************************************)
NUM_ROUNDS_MINING == 2000
TIME_UNTIL_ELIGIBILITY_DECREASE == 30000
MINT_ELEGIBILITY_DIFFICULTY == 3
\* isValidBlock's allowance for clock error, in ms
ClockErrorAllowance == 100
\* text2Binary keeps the first 16 bits
BinarySliceLen == 16
\* getCoinAgeOfWalletOnChain's cap, and coinAgeOf's divisor
CoinAgeCap == 4
CoinAgeDivisor == 1000

Min(a, b) == IF a < b THEN a ELSE b
Max(a, b) == IF a > b THEN a ELSE b

RECURSIVE SumAmounts(_)
SumAmounts(s) ==
    IF s = <<>> THEN 0 ELSE Head(s).amount + SumAmounts(Tail(s))

RECURSIVE SetSum(_, _)
\* the sum of f[x] over the finite set S
SetSum(S, f) ==
    IF S = {} THEN 0
    ELSE LET x == CHOOSE y \in S : TRUE IN f[x] + SetSum(S \ {x}, f)

(***************************************************************************)
(* Eligibility helpers (the bit-matching test).                            *)
(***************************************************************************)
RECURSIVE ToBinary(_)
\* Number.prototype.toString(2): no leading zeros, "0" for 0
ToBinary(n) ==
    IF n < 2 THEN <<n>> ELSE Append(ToBinary(n \div 2), n % 2)

RECURSIVE JoinBinary(_)
\* string.split('').map(char => char.charCodeAt(0).toString(2)).join('')
JoinBinary(str) ==
    IF str = <<>> THEN <<>> ELSE ToBinary(Head(str)) \o JoinBinary(Tail(str))

\* a string is the sequence of its char codes; the result a sequence of bits
text2Binary(str) ==
    LET all == JoinBinary(str)
    IN  SubSeq(all, 1, Min(Len(all), BinarySliceLen))

RECURSIVE CountFrom(_, _, _)
CountFrom(string1, string2, i) ==
    IF i > Len(string1) THEN 0
    ELSE IF string1[i] = string2[i] THEN 1 + CountFrom(string1, string2, i + 1)
    ELSE 0

\* the number of leading positions on which the strings agree; -1 stands for
\* the "Mismatching string length" error
countMatchingBits(string1, string2) ==
    IF Len(string1) # Len(string2) THEN -1
    ELSE CountFrom(string1, string2, 1)

\* a variant that is content with one matching bit less than the target
isEligibileToMintLax(eligibility_address, prevBlockHash, target) ==
    countMatchingBits(text2Binary(prevBlockHash),
                      text2Binary(eligibility_address)) >= target - 1

\* a variant that asks for more matching bits than the target
isEligibileToMintStrict(eligibility_address, prevBlockHash, target) ==
    countMatchingBits(text2Binary(prevBlockHash), text2Binary(eligibility_address))
        > target

\* isEligibileToMint(miner, b, target), on the block's prevBlockHash and
\* the miner's wallet.getEligibilityAddress()
isEligibileToMint(eligibility_address, prevBlockHash, target) ==
    countMatchingBits(text2Binary(prevBlockHash), text2Binary(eligibility_address))
        >= target

(***************************************************************************)
(* Wallet.  A wallet is [owner, coins, addresses, eligibility_address]:    *)
(* coins is the queue (front first), addresses the set of addresses with   *)
(* a keypair.  A coin is [address, amount, txID, sig]; a UTXO of a block   *)
(* is [txID, address, amount, chainNum].  An address is <<owner, n>>.      *)
(***************************************************************************)
\* get balance(): the sum of the local coins
balance(w) == SumAmounts(w.coins)

hasKey(w, address) == address \in w.addresses

\* Block.getAllAgedUTXOsBelongingTo(wallet): the wallet's outputs created
\* before the block itself
getAllAgedUTXOsBelongingTo(block, w) ==
    {u \in block.utxos : hasKey(w, u.address) /\ u.chainNum < block.chainLength}

\* Block.getAllUTXOsBelongingTo(wallet)
getAllUTXOsBelongingTo(block, w) ==
    {u \in block.utxos : hasKey(w, u.address)}

balanceOnChain(w, block) ==
    LET mine == {u \in block.utxos :
                    hasKey(w, u.address) /\ u.chainNum < block.chainLength}
    IN  SetSum(mine, [u \in mine |-> u.amount])

\* makeAddress(): a fresh keypair; returns [w, addr]
makeAddress(w) ==
    LET addr == <<w.owner, Cardinality(w.addresses) + 1>>
    IN  [w |-> [w EXCEPT !.addresses = @ \cup {addr}], addr |-> addr]

\* a variant without the check for the address's keypair
addUTXOUnchecked(w, utxo, txID) ==
    [threw |-> FALSE,
     w |-> [w EXCEPT !.coins =
               <<[address |-> utxo.address, amount |-> utxo.amount,
                  txID |-> txID, sig |-> FALSE]>> \o @]]

\* addUTXO(utxo, txID, outputIndex): returns [threw, w]
addUTXO(w, utxo, txID) ==
    IF utxo.address \notin w.addresses
    THEN [threw |-> TRUE, w |-> w]
    ELSE [threw |-> FALSE,
          w |-> [w EXCEPT !.coins =
                    <<[address |-> utxo.address, amount |-> utxo.amount,
                       txID |-> txID, sig |-> FALSE]>> \o @]]

RECURSIVE SpendLoopOneMore(_, _, _, _, _)
\* a variant of the selection loop that goes on while amount >= 0
SpendLoopOneMore(coins, i, amount, addresses, needed) ==
    IF i > Len(coins) \/ ~(amount >= 0)
    THEN [coins |-> coins, needed |-> needed, amount |-> amount, threw |-> ""]
    ELSE IF coins[i].address \notin addresses
         THEN [coins |-> coins, needed |-> needed, amount |-> amount,
               threw |-> "TypeError"]
         ELSE SpendLoopOneMore([coins EXCEPT ![i].sig = TRUE], i + 1,
                               amount - coins[i].amount, addresses,
                               Append(needed, i))

RECURSIVE SpendLoop(_, _, _, _, _)
\* the selection loop of spendUTXOs from index i on: every coin it comes to
\* is signed and selected while amount > 0; reading the keypair of an
\* address the wallet does not hold is a TypeError
SpendLoop(coins, i, amount, addresses, needed) ==
    IF i > Len(coins) \/ ~(amount > 0)
    THEN [coins |-> coins, needed |-> needed, amount |-> amount, threw |-> ""]
    ELSE IF coins[i].address \notin addresses
         THEN [coins |-> coins, needed |-> needed, amount |-> amount,
               threw |-> "TypeError"]
         ELSE SpendLoop([coins EXCEPT ![i].sig = TRUE], i + 1,
                        amount - coins[i].amount, addresses, Append(needed, i))

\* spendUTXOs(amount): returns [threw, w, inputs, changeAmt]
spendUTXOs(w, amount) ==
    IF amount > balance(w)
    THEN [threw |-> "InsufficientFunds", w |-> w, inputs |-> <<>>, changeAmt |-> 0]
    ELSE LET r == SpendLoop(w.coins, 1, amount, w.addresses, <<>>)
         IN  [threw |-> r.threw,
              w |-> [w EXCEPT !.coins = r.coins],
              inputs |-> IF r.threw # "" THEN <<>>
                         ELSE [k \in 1..Len(r.needed) |-> r.coins[r.needed[k]]],
              changeAmt |-> 0 - r.amount]

RECURSIVE SpendFullyLoopAnyAddress(_, _, _, _, _)
\* a variant of the selection loop that takes every coin it comes to
SpendFullyLoopAnyAddress(coins, i, amount, validAddresses, needed) ==
    IF i > Len(coins) \/ ~(amount > 0)
    THEN [coins |-> coins, needed |-> needed, amount |-> amount]
    ELSE SpendFullyLoopAnyAddress([coins EXCEPT ![i].sig = TRUE], i + 1,
                                  amount - coins[i].amount, validAddresses,
                                  Append(needed, i))

RECURSIVE SpendFullyLoopCountsSkipped(_, _, _, _, _)
\* a variant of the selection loop that takes the amount of a coin off
\* before it looks at the coin's address
SpendFullyLoopCountsSkipped(coins, i, amount, validAddresses, needed) ==
    IF i > Len(coins) \/ ~(amount > 0)
    THEN [coins |-> coins, needed |-> needed, amount |-> amount]
    ELSE IF coins[i].address \in validAddresses
         THEN SpendFullyLoopCountsSkipped([coins EXCEPT ![i].sig = TRUE], i + 1,
                                          amount - coins[i].amount,
                                          validAddresses, Append(needed, i))
         ELSE SpendFullyLoopCountsSkipped(coins, i + 1, amount - coins[i].amount,
                                          validAddresses, needed)

RECURSIVE SpendFullyLoop(_, _, _, _, _)
\* the selection loop of spendUTXOsFully from index i on: returns the coin
\* queue (selected coins signed), the selected indices and what is left of
\* the amount
SpendFullyLoop(coins, i, amount, validAddresses, needed) ==
    IF i > Len(coins) \/ ~(amount > 0)
    THEN [coins |-> coins, needed |-> needed, amount |-> amount]
    ELSE IF coins[i].address \in validAddresses
         THEN SpendFullyLoop([coins EXCEPT ![i].sig = TRUE], i + 1,
                             amount - coins[i].amount, validAddresses,
                             Append(needed, i))
         ELSE SpendFullyLoop(coins, i + 1, amount, validAddresses, needed)

\* spendUTXOsFully(amount, miner) on miner.currentBlock = block: returns
\* [threw, w, inputs, totalSpent]; inputs are the selected coins
spendUTXOsFully(w, amount, block) ==
    IF amount > balance(w)
    THEN [threw |-> TRUE, w |-> w, inputs |-> <<>>, totalSpent |-> 0]
    ELSE LET validUTXOs == getAllAgedUTXOsBelongingTo(block, w)
             validAddresses == {u.address : u \in validUTXOs}
             r == SpendFullyLoop(w.coins, 1, amount, validAddresses, <<>>)
         IN  [threw |-> FALSE,
              w |-> [w EXCEPT !.coins = r.coins],
              inputs |-> [k \in 1..Len(r.needed) |-> r.coins[r.needed[k]]],
              totalSpent |-> amount - r.amount]

\* coinAgeOf(utxo, block), in thousandths
coinAgeOf(utxo, block) ==
    Max(0, utxo.amount * (block.chainLength - utxo.chainNum - 2))

\* getCoinAgeOfWalletOnChain(block), in thousandths: Math.min(4, Math.floor(total))
getCoinAgeOfWalletOnChain(w, block) ==
    LET utxos == getAllAgedUTXOsBelongingTo(block, w)
        total == SetSum(utxos, [u \in utxos |-> coinAgeOf(u, block)])
    IN  CoinAgeDivisor * Min(CoinAgeCap, total \div CoinAgeDivisor)

\* coinAgeOf of source/wallet.js, in thousandths
coinAgeOfSrc(utxo, block) ==
    utxo.amount * (block.chainLength - utxo.chainNum - 1)

\* getCoinAgeOfWalletOnChain(miner) of source/wallet.js, in thousandths:
\* the sum itself
getCoinAgeOfWalletOnChainSrc(w, block) ==
    LET utxos == getAllAgedUTXOsBelongingTo(block, w)
    IN  SetSum(utxos, [u \in utxos |-> coinAgeOfSrc(u, block)])

(***************************************************************************)
(* Bounds of the model.                                                    *)
(***************************************************************************)
\* miners of the simulation
NumMiners == 2
\* no candidate is built beyond this chain length
MaxChain == 3
\* the clock stops after this many backoff intervals
MaxIntervals == 2
\* findProof batches without a proof, per candidate
MaxBatches == 1

Miners == 1..NumMiners

(***************************************************************************)
(* Values of the collaborators (Block, utils, the simulation).             *)
(***************************************************************************)
\* Block's coinbase reward
CoinbaseAmount == 25
\* the genesis allocation of a miner (simulations/twominers.js)
GenesisAmount == 5
\* the chain length of a genesis block
GenesisLength == 1

\* the leading characters of a digest, as char codes: "000", "800", "A00"
Digest0 == <<48, 48, 48>>
Digest8 == <<56, 48, 48>>
DigestA == <<65, 48, 48>>
\* the digests a wallet's fingerprint may start with
FingerprintDigests == {Digest0, Digest8, DigestA}
\* the hash of the block a miner mined at a chain length: a digest and
\* what tells the blocks apart
BlockHash(m, len) == Digest0 \o <<48 + m, 48 + len>>
NoHash == <<>>
NoAddress == <<0, 0>>
NoTimer == [due |-> -1, reuse |-> FALSE, cycle |-> 0]

NoBlock ==
    [chainLength |-> 0, prevBlockHash |-> NoHash, hash |-> NoHash,
     timestamp |-> 0, proof |-> 0, validProof |-> FALSE, utxos |-> {},
     rewardAddr |-> NoAddress, creator |-> 0]

\* Block.makeGenesisBlock(allocations): alloc is the set of miners with an
\* allocation, each credited at its first address
makeGenesisBlock(alloc) ==
    [chainLength |-> GenesisLength, prevBlockHash |-> NoHash,
     hash |-> BlockHash(0, GenesisLength), timestamp |-> 0, proof |-> 0,
     validProof |-> TRUE,
     utxos |-> {[txID |-> <<"genesis", 0, 0>>, address |-> <<m, 1>>,
                 amount |-> GenesisAmount, chainNum |-> GenesisLength] : m \in alloc},
     rewardAddr |-> NoAddress, creator |-> 0]

\* new Block(rewardAddr, prevBlock), created at time t by miner m: chained on
\* the previous block, with its UTXOs and the coinbase output
NewBlock(rewardAddr, prevBlock, t, m) ==
    LET len == prevBlock.chainLength + 1
    IN  [chainLength |-> len, prevBlockHash |-> prevBlock.hash, hash |-> NoHash,
         timestamp |-> t, proof |-> 0, validProof |-> FALSE,
         utxos |-> prevBlock.utxos \cup
                   {[txID |-> <<"cb", m, len>>, address |-> rewardAddr,
                     amount |-> CoinbaseAmount, chainNum |-> len]},
         rewardAddr |-> rewardAddr, creator |-> m]

\* block.coinbaseTX's output
CoinbaseOutput(block) ==
    [txID |-> <<"cb", block.creator, block.chainLength>>,
     address |-> block.rewardAddr, amount |-> CoinbaseAmount,
     chainNum |-> block.chainLength]

\* block.spendCoinAge(destAddress, amount, inputs): the inputs' outputs leave
\* the block's UTXOs and one output of the amount is created; returns
\* [block, output]
spendCoinAge(block, destAddress, amount, inputs) ==
    LET spent == {u \in block.utxos :
                     \E k \in 1..Len(inputs) :
                        /\ inputs[k].txID = u.txID
                        /\ inputs[k].address = u.address}
        out == [txID |-> <<"ca", block.creator, block.chainLength>>,
                address |-> destAddress, amount |-> amount,
                chainNum |-> block.chainLength]
    IN  [block |-> [block EXCEPT !.utxos = (@ \ spent) \cup {out}], output |-> out]

\* saveEligibilityProof(block): the fingerprint is a digest of the wallet's
\* addresses on the block; digest is the value the hash takes
saveEligibilityProof(w, block, digest) ==
    [w EXCEPT !.eligibility_address = digest]

\* Client.receiveOutput(tx) for a one-output transaction: the output is
\* added to the wallet when the wallet holds its key
receiveOutput(w, output) ==
    IF hasKey(w, output.address) THEN addUTXO(w, output, output.txID).w ELSE w

(***************************************************************************)
(* Miner.  A miner is the record of its fields; cycle (the number of       *)
(* proposal cycles begun), failed (the failed eligibility tests of the     *)
(* current cycle) and burn (what the last coin-age burn's spendUTXOsFully  *)
(* returned) are history fields.  previousBlocks maps a hash to the    *)
(* block stored under it, a block being referred to by its own hash.  A    *)
(* pending retry timer is                                                  *)
(* [due, reuse, cycle]: when it may fire, the argument of its              *)
(* INIT_MINTING message and the cycle that scheduled it.                   *)
(***************************************************************************)
VARIABLES
    genesis,    \* the starting block of the simulation
    miner,      \* miner[m]: the fields of miner m
    wallet,     \* wallet[m]: the wallet of miner m
    timers,     \* timers[m]: the INIT_MINTING timers of m that are pending
    ticks,      \* ticks[m]: the START_MINING ticks of m that are pending
    inbox,      \* inbox[m]: the PROOF_FOUND messages not yet handled by m
    now,        \* Date.now(), in ms
    crashed,    \* the exception that left a handler uncaught, if any
    ret,        \* the result of the last direct call of a wallet function
    forged      \* the PROOF_FOUND messages broadcast without a valid proof

vars ==
    <<genesis, miner, wallet, timers, ticks, inbox, now, crashed, ret, forged>>

\* no coin-age burn yet
NoBurn == [inputs |-> <<>>, totalSpent |-> 0]

\* the constructor of Miner (and of Client, for the wallet)
NewMiner ==
    [currentBlock |-> NoBlock, previousBlocks |-> <<>>,
     mint_elegibility_diff_dyn |-> MINT_ELEGIBILITY_DIFFICULTY,
     rewardAddress |-> NoAddress, shouldMine |-> FALSE,
     shouldStartNewBlock |-> FALSE, mintingTimeout |-> NoTimer,
     initialized |-> FALSE, cycle |-> 0, failed |-> 0, burn |-> NoBurn]

NewWallet(m) ==
    [owner |-> m, coins |-> <<>>, addresses |-> {}, eligibility_address |-> <<>>]

\* the wallet of a client named in the genesis allocations
GenesisWallet(m) ==
    [owner |-> m,
     coins |-> <<[address |-> <<m, 1>>, amount |-> GenesisAmount,
                  txID |-> <<"genesis", 0, 0>>, sig |-> FALSE]>>,
     addresses |-> {<<m, 1>>}, eligibility_address |-> <<>>]

NoRet == [op |-> "none"]

\* no handler has thrown
NoCrash == [threw |-> "", op |-> "", m |-> 0]
\* an exception no handler catches ends the process: nothing runs after it
Uncaught(threw, op, m) ==
    IF threw = "" THEN NoCrash ELSE [threw |-> threw, op |-> op, m |-> m]

\* a variant that keeps no other block
storeBlockAlone(previousBlocks, hash, block) == (hash :> block)

\* this.previousBlocks[hash] = block
storeBlock(previousBlocks, hash, block) == (hash :> block) @@ previousBlocks

\* a variant that cancels nothing
clearTimeoutNothing(tm, handle) == tm

\* clearTimeout(this.mintingTimeout)
clearTimeout(tm, handle) == tm \ {handle}

\* a variant that makes a new address whatever reuseRewardAddress says
chooseRewardAddressAlwaysNew(w, mi, reuseRewardAddress) == makeAddress(w)

\* the coinbase reward address of a new candidate: a new address, unless the
\* old one is reused; returns [w, addr]
chooseRewardAddress(w, mi, reuseRewardAddress) ==
    IF reuseRewardAddress
    THEN [w |-> w, addr |-> mi.rewardAddress]
    ELSE makeAddress(w)

\* a variant without the totalSpent === 0 check
burnOutcomeUnchecked(sp) == IF sp.threw THEN "InsufficientFunds" ELSE ""

\* how the coin-age burn ends for the result sp of spendUTXOsFully: the
\* exception thrown, or "" when the build goes on
burnOutcome(sp) ==
    IF sp.threw THEN "InsufficientFunds"
    ELSE IF sp.totalSpent = 0 THEN "NoSpendableCoinAge"
    ELSE ""

\* startNewSearch, the part under if (this.shouldStartNewBlock): returns
\* [mi, w, timers, threw], the fields as the exception (if any) leaves them
BuildCandidate(mi, w, tm, reuseRewardAddress, t, digest, m) ==
    LET tm1 == clearTimeout(tm, mi.mintingTimeout)
        mk1 == chooseRewardAddress(w, mi, reuseRewardAddress)
        b == NewBlock(mk1.addr, mi.currentBlock, t, m)
        mi1 == [mi EXCEPT
                  !.mint_elegibility_diff_dyn = MINT_ELEGIBILITY_DIFFICULTY,
                  !.rewardAddress = mk1.addr,
                  !.previousBlocks = storeBlock(@, b.prevBlockHash,
                                               mi.currentBlock.hash),
                  !.currentBlock = b,
                  !.shouldStartNewBlock = FALSE,
                  !.cycle = @ + 1,
                  !.failed = 0]
        mk2 == makeAddress(mk1.w)
        selfAddr == mk2.addr
        sp == spendUTXOsFully(mk2.w, balanceOnChain(mk2.w, b), b)
        ca == spendCoinAge(b, selfAddr, sp.totalSpent, sp.inputs)
        w1 == addUTXO(sp.w, ca.output, ca.output.txID).w
        burn == [inputs |-> sp.inputs, totalSpent |-> sp.totalSpent]
    IN  IF burnOutcome(sp) # ""
        THEN [mi |-> [mi1 EXCEPT !.burn = burn], w |-> sp.w, timers |-> tm1,
              threw |-> burnOutcome(sp)]
        ELSE [mi |-> [mi1 EXCEPT !.currentBlock = ca.block, !.burn = burn],
              w |-> saveEligibilityProof(w1, ca.block, digest),
              timers |-> tm1, threw |-> ""]

\* a variant whose failing branch schedules no retry
EligibilityTestNoRetry(mi, w, tm, reuseRewardAddress, t) ==
    IF isEligibileToMint(w.eligibility_address, mi.currentBlock.prevBlockHash,
                         mi.mint_elegibility_diff_dyn)
    THEN [mi |-> [mi EXCEPT !.shouldMine = TRUE], w |-> w, timers |-> tm,
          threw |-> ""]
    ELSE [mi |-> [mi EXCEPT !.shouldMine = FALSE,
                            !.mint_elegibility_diff_dyn = @ - 1,
                            !.failed = @ + 1],
          w |-> w, timers |-> tm, threw |-> ""]

\* a variant whose failing branch raises the threshold
EligibilityTestRaisesThreshold(mi, w, tm, reuseRewardAddress, t) ==
    IF isEligibileToMint(w.eligibility_address, mi.currentBlock.prevBlockHash,
                         mi.mint_elegibility_diff_dyn)
    THEN [mi |-> [mi EXCEPT !.shouldMine = TRUE], w |-> w, timers |-> tm,
          threw |-> ""]
    ELSE LET timer == [due |-> t + TIME_UNTIL_ELIGIBILITY_DECREASE,
                       reuse |-> reuseRewardAddress, cycle |-> mi.cycle]
         IN  [mi |-> [mi EXCEPT !.shouldMine = FALSE,
                                !.mint_elegibility_diff_dyn = @ + 1,
                                !.mintingTimeout = timer,
                                !.failed = @ + 1],
              w |-> w, timers |-> tm \cup {timer}, threw |-> ""]

\* a variant whose failing branch leaves the threshold as it is
EligibilityTestKeepsThreshold(mi, w, tm, reuseRewardAddress, t) ==
    IF isEligibileToMint(w.eligibility_address, mi.currentBlock.prevBlockHash,
                         mi.mint_elegibility_diff_dyn)
    THEN [mi |-> [mi EXCEPT !.shouldMine = TRUE], w |-> w, timers |-> tm,
          threw |-> ""]
    ELSE LET timer == [due |-> t + TIME_UNTIL_ELIGIBILITY_DECREASE,
                       reuse |-> reuseRewardAddress, cycle |-> mi.cycle]
         IN  [mi |-> [mi EXCEPT !.shouldMine = FALSE,
                                !.mintingTimeout = timer,
                                !.failed = @ + 1],
              w |-> w, timers |-> tm \cup {timer}, threw |-> ""]

\* startNewSearch, the eligibility test and its two branches
EligibilityTest(mi, w, tm, reuseRewardAddress, t) ==
    IF isEligibileToMint(w.eligibility_address, mi.currentBlock.prevBlockHash,
                         mi.mint_elegibility_diff_dyn)
    THEN [mi |-> [mi EXCEPT !.shouldMine = TRUE], w |-> w, timers |-> tm,
          threw |-> ""]
    ELSE LET timer == [due |-> t + TIME_UNTIL_ELIGIBILITY_DECREASE,
                       reuse |-> reuseRewardAddress, cycle |-> mi.cycle]
         IN  [mi |-> [mi EXCEPT !.shouldMine = FALSE,
                                !.mint_elegibility_diff_dyn = @ - 1,
                                !.mintingTimeout = timer,
                                !.failed = @ + 1],
              w |-> w, timers |-> tm \cup {timer}, threw |-> ""]

\* a variant that builds a candidate whatever shouldStartNewBlock says
startNewSearchAlwaysBuilds(mi, w, tm, reuseRewardAddress, t, digest, m) ==
    LET built == BuildCandidate(mi, w, tm, reuseRewardAddress, t, digest, m)
    IN  IF built.threw # ""
        THEN built
        ELSE EligibilityTest(built.mi, built.w, built.timers, reuseRewardAddress, t)

\* startNewSearch(reuseRewardAddress) of miner m at time t
startNewSearch(mi, w, tm, reuseRewardAddress, t, digest, m) ==
    LET built == IF mi.shouldStartNewBlock
                 THEN BuildCandidate(mi, w, tm, reuseRewardAddress, t, digest, m)
                 ELSE [mi |-> mi, w |-> w, timers |-> tm, threw |-> ""]
    IN  IF built.threw # ""
        THEN built
        ELSE EligibilityTest(built.mi, built.w, built.timers, reuseRewardAddress, t)

\* b.verifyProof(): whether the block's proof meets its target
verifyProof(b) == b.validProof

\* isValidBlock(b, miner) at time t, for the named sender's wallet as it is
\* now: "throw" (the sender is not allowed to mint), "false" or "true"
isValidBlock(b, senderWallet, t) ==
    LET diff == t - b.timestamp + ClockErrorAllowance
        minMintingDifficulty ==
            MINT_ELEGIBILITY_DIFFICULTY - (diff \div TIME_UNTIL_ELIGIBILITY_DECREASE)
    IN  IF ~isEligibileToMint(senderWallet.eligibility_address, b.prevBlockHash,
                              minMintingDifficulty)
        THEN "throw"
        ELSE IF ~verifyProof(b) THEN "false" ELSE "true"

\* fakeNet.broadcast(PROOF_FOUND, msg): a copy for every registered miner
broadcast(boxes, msg) == [r \in Miners |-> boxes[r] \cup {msg}]

\* whether findProof(oneAndDone) can run for miner m: on a pending
\* START_MINING tick, or called directly with oneAndDone set
FindProofCalled(m, oneAndDone) == oneAndDone \/ ticks[m] > 0

\* the START_MINING tick that runs the handler is no longer pending
takeTick(tk, m, oneAndDone) ==
    IF oneAndDone THEN tk ELSE [tk EXCEPT ![m] = @ - 1]

\* a variant that schedules the next tick whatever oneAndDone says
scheduleTickAlways(tk, m, oneAndDone) == [tk EXCEPT ![m] = @ + 1]

\* findProof's last statement: unless oneAndDone, setTimeout(() =>
\* this.emit(START_MINING), 0)
scheduleTick(tk, m, oneAndDone) ==
    IF oneAndDone THEN tk ELSE [tk EXCEPT ![m] = @ + 1]

\* a variant that announces the block with the proof counter moved on
announceProofNextProof(boxes, mi, m) ==
    broadcast(boxes, [block |-> [mi.currentBlock EXCEPT !.proof = @ + 1,
                                                        !.validProof = FALSE],
                      miner |-> m])

\* announceProof(): the current block, serialized, and the miner itself
announceProof(boxes, mi, m) ==
    broadcast(boxes, [block |-> mi.currentBlock, miner |-> m])

AllInitialized == \A m \in Miners : miner[m].initialized

Running == crashed = NoCrash

(***************************************************************************)
(* The state after the simulation has built its miners and the genesis     *)
(* block: alloc is the set of miners named in the genesis allocations.     *)
(***************************************************************************)
Init ==
    \E alloc \in SUBSET Miners :
        /\ genesis = makeGenesisBlock(alloc)
        /\ miner = [m \in Miners |-> NewMiner]
        /\ wallet = [m \in Miners |->
                        IF m \in alloc THEN GenesisWallet(m) ELSE NewWallet(m)]
        /\ timers = [m \in Miners |-> {}]
        /\ ticks = [m \in Miners |-> 0]
        /\ inbox = [m \in Miners |-> {}]
        /\ now = 0
        /\ crashed = NoCrash
        /\ ret = NoRet
        /\ forged = 0

\* initialize(startingBlock), called by the simulation
Initialize(m) ==
    /\ Running
    /\ ~miner[m].initialized
    /\ \E digest \in FingerprintDigests :
        LET mi0 == [miner[m] EXCEPT !.currentBlock = genesis,
                                    !.initialized = TRUE,
                                    !.shouldStartNewBlock = TRUE]
        IN  \E r \in {startNewSearch(mi0, wallet[m], timers[m], FALSE, now,
                                     digest, m)} :
            /\ miner' = [miner EXCEPT ![m] = r.mi]
            /\ wallet' = [wallet EXCEPT ![m] = r.w]
            /\ timers' = [timers EXCEPT ![m] = r.timers]
            /\ crashed' = Uncaught(r.threw, "initialize", m)
            /\ ticks' = IF r.threw # "" THEN ticks
                        ELSE scheduleTick(ticks, m, FALSE)
    /\ UNCHANGED <<genesis, inbox, now, ret, forged>>

\* the INIT_MINTING timer fires: startNewSearch(reuseRewardAddress)
RetryTimer(m) ==
    /\ Running
    /\ AllInitialized
    /\ \E timer \in timers[m],
          digest \in (IF miner[m].shouldStartNewBlock THEN FingerprintDigests
                      ELSE {Digest0}) :
        /\ now >= timer.due
        /\ \E r \in {startNewSearch(miner[m], wallet[m], timers[m] \ {timer},
                                     timer.reuse, now, digest, m)} :
               /\ miner' = [miner EXCEPT ![m] = r.mi]
               /\ wallet' = [wallet EXCEPT ![m] = r.w]
               /\ timers' = [timers EXCEPT ![m] = r.timers]
               /\ crashed' = Uncaught(r.threw, "startNewSearch", m)
    /\ UNCHANGED <<genesis, ticks, inbox, now, ret, forged>>

\* findProof(oneAndDone) when shouldMine is false: nothing is tested
FindProofIdle(m, oneAndDone) ==
    /\ Running
    /\ AllInitialized
    /\ FindProofCalled(m, oneAndDone)
    /\ ~miner[m].shouldMine
    /\ ticks' = scheduleTick(takeTick(ticks, m, oneAndDone), m, oneAndDone)
    /\ UNCHANGED <<genesis, miner, wallet, timers, inbox, now, crashed, ret,
                   forged>>

\* findProof(): the whole batch fails the proof check
FindProofNone(m, oneAndDone) ==
    /\ Running
    /\ AllInitialized
    /\ FindProofCalled(m, oneAndDone)
    /\ miner[m].shouldMine
    /\ miner[m].currentBlock.proof < MaxBatches * NUM_ROUNDS_MINING
    /\ miner' = [miner EXCEPT ![m].currentBlock.proof = @ + NUM_ROUNDS_MINING]
    /\ ticks' = scheduleTick(takeTick(ticks, m, oneAndDone), m, oneAndDone)
    /\ UNCHANGED <<genesis, wallet, timers, inbox, now, crashed, ret, forged>>

\* where in a batch a proof is found: at its last proof value
FoundOffsets == {NUM_ROUNDS_MINING - 1}

\* findProof(): the proof k steps on passes the check; the coinbase is
\* credited, the block announced and the next cycle begun
FindProofFound(m, oneAndDone) ==
    /\ Running
    /\ AllInitialized
    /\ FindProofCalled(m, oneAndDone)
    /\ miner[m].shouldMine
    /\ miner[m].currentBlock.chainLength < MaxChain
    /\ \E k \in FoundOffsets, digest \in FingerprintDigests :
        LET b == [miner[m].currentBlock EXCEPT
                    !.proof = @ + k, !.validProof = TRUE,
                    !.hash = BlockHash(m, miner[m].currentBlock.chainLength)]
            w1 == receiveOutput(wallet[m], CoinbaseOutput(b))
            mi1 == [miner[m] EXCEPT !.currentBlock = b,
                                    !.shouldMine = FALSE,
                                    !.shouldStartNewBlock = TRUE]
        IN  \E r \in {startNewSearch(mi1, w1, timers[m], FALSE, now, digest, m)} :
            /\ inbox' = announceProof(inbox, mi1, m)
            /\ miner' = [miner EXCEPT ![m] = r.mi]
            /\ wallet' = [wallet EXCEPT ![m] = r.w]
            /\ timers' = [timers EXCEPT ![m] = r.timers]
            /\ crashed' = Uncaught(r.threw, "findProof", m)
            /\ ticks' = IF r.threw # "" THEN takeTick(ticks, m, oneAndDone)
                        ELSE scheduleTick(takeTick(ticks, m, oneAndDone), m,
                                          oneAndDone)
    /\ UNCHANGED <<genesis, now, ret, forged>>

\* a variant that switches over to any block of another miner
cutOverAny(b, mi, m, sender) == m # sender

\* a variant that asks for a strictly longer chain
cutOverStrict(b, mi, m, sender) ==
    b.chainLength > mi.currentBlock.chainLength /\ m # sender

\* receiveBlock's test for switching over to the received block b, for the
\* miner m with fields mi
cutOver(b, mi, m, sender) ==
    b.chainLength >= mi.currentBlock.chainLength /\ m # sender

\* receiveBlock({block, miner}) on a PROOF_FOUND message
receiveBlock(m) ==
    /\ Running
    /\ AllInitialized
    /\ \E msg \in inbox[m] :
      \E digest \in (IF cutOver(msg.block, miner[m], m, msg.miner)
                      THEN FingerprintDigests ELSE {Digest0}) :
        LET b == msg.block
            valid == isValidBlock(b, wallet[msg.miner], now)
            mi1 == IF b.hash \in DOMAIN miner[m].previousBlocks
                   THEN miner[m]
                   ELSE [miner[m] EXCEPT
                           !.previousBlocks = storeBlock(@, b.hash, b.hash)]
            cut == cutOver(b, miner[m], m, msg.miner)
            mi2 == [mi1 EXCEPT !.currentBlock = b, !.shouldStartNewBlock = TRUE]
        IN  \E r \in {IF valid # "true"
                      THEN [mi |-> miner[m], w |-> wallet[m], timers |-> timers[m],
                            threw |-> IF valid = "throw" THEN "IneligibleMinter"
                                      ELSE ""]
                      ELSE IF cut
                      THEN startNewSearch(mi2, wallet[m], timers[m], TRUE, now,
                                          digest, m)
                      ELSE [mi |-> mi1, w |-> wallet[m], timers |-> timers[m],
                            threw |-> ""]} :
            /\ inbox' = [inbox EXCEPT ![m] = @ \ {msg}]
            /\ miner' = [miner EXCEPT ![m] = r.mi]
            /\ wallet' = [wallet EXCEPT ![m] = r.w]
            /\ timers' = [timers EXCEPT ![m] = r.timers]
            /\ crashed' = Uncaught(r.threw, "receiveBlock", m)
    /\ UNCHANGED <<genesis, ticks, now, ret, forged>>

\* the clock moves on: to 100 ms before the next multiple of the backoff
\* interval, then onto it
AdvanceTime ==
    /\ Running
    /\ AllInitialized
    /\ now < MaxIntervals * TIME_UNTIL_ELIGIBILITY_DECREASE
    /\ now' = IF now % TIME_UNTIL_ELIGIBILITY_DECREASE = 0
              THEN now + TIME_UNTIL_ELIGIBILITY_DECREASE - ClockErrorAllowance
              ELSE now + ClockErrorAllowance
    /\ UNCHANGED <<genesis, miner, wallet, timers, ticks, inbox, crashed,
                   ret, forged>>

Next ==
    \/ \E m \in Miners : Initialize(m)
    \/ \E m \in Miners : RetryTimer(m)
    \/ \E m \in Miners, oneAndDone \in BOOLEAN : FindProofIdle(m, oneAndDone)
    \/ \E m \in Miners, oneAndDone \in BOOLEAN : FindProofNone(m, oneAndDone)
    \/ \E m \in Miners, oneAndDone \in BOOLEAN : FindProofFound(m, oneAndDone)
    \/ \E m \in Miners : receiveBlock(m)
    \/ AdvanceTime

Spec == Init /\ [][Next]_vars

(***************************************************************************)
(* Runs in which no proof search succeeds and a participant announces a    *)
(* block whose proof does not verify: the candidate a miner is still       *)
(* working on.                                                             *)
(***************************************************************************)
\* announcements without a valid proof, at most
MaxForged == 1

\* PROOF_FOUND for the candidate of miner s, naming s, before its proof
\* meets the target
ForgedProof(s) ==
    /\ Running
    /\ AllInitialized
    /\ forged < MaxForged
    /\ ~verifyProof(miner[s].currentBlock)
    /\ inbox' = announceProof(inbox, miner[s], s)
    /\ forged' = forged + 1
    /\ UNCHANGED <<genesis, miner, wallet, timers, ticks, now, crashed, ret>>

NextForged ==
    \/ \E m \in Miners : Initialize(m)
    \/ \E m \in Miners : RetryTimer(m)
    \/ \E m \in Miners, oneAndDone \in BOOLEAN : FindProofIdle(m, oneAndDone)
    \/ \E m \in Miners, oneAndDone \in BOOLEAN : FindProofNone(m, oneAndDone)
    \/ \E m \in Miners : receiveBlock(m)
    \/ AdvanceTime
    \/ \E s \in Miners : ForgedProof(s)

SpecForged == Init /\ [][NextForged]_vars

(***************************************************************************)
(* The wallet's functions called directly, on every wallet and block of a  *)
(* bounded family: wallet 1 on the block miner 1 holds.                    *)
(***************************************************************************)
\* coins in the queue, and UTXOs in the block, at most
MaxCoins == 2
MaxUtxos == 2

WalletAddresses == {<<1, 1>>, <<1, 2>>}
UtxoAddresses == WalletAddresses \cup {<<2, 1>>}
CoinAmounts == {50, 5000}
UtxoAmounts == {50, 1000, 5000}
SpendAmounts == {50, 5050}
WalletChainLengths == {2, 4}
UtxoChainNums == {1, 3}

CoinUniverse ==
    [address : WalletAddresses, amount : CoinAmounts,
     txID : {<<"tx", 0, 0>>}, sig : {FALSE}]
UtxoUniverse ==
    [txID : {<<"tx", 0, 0>>}, address : UtxoAddresses, amount : UtxoAmounts,
     chainNum : UtxoChainNums]

RECURSIVE SeqsUpTo(_, _)
\* the sequences over S of length at most n
SeqsUpTo(S, n) ==
    IF n = 0 THEN {<<>>}
    ELSE LET shorter == SeqsUpTo(S, n - 1)
         IN  shorter \cup {Append(q, x) : q \in shorter, x \in S}

RECURSIVE SubsetsUpTo(_, _)
\* the subsets of S with at most n elements
SubsetsUpTo(S, n) ==
    IF n = 0 THEN {{}}
    ELSE LET smaller == SubsetsUpTo(S, n - 1)
         IN  smaller \cup {T \cup {x} : T \in smaller, x \in S}

InitWallet ==
    \E coins \in SeqsUpTo(CoinUniverse, MaxCoins),
       utxos \in SubsetsUpTo(UtxoUniverse, MaxUtxos),
       len \in WalletChainLengths :
        /\ genesis = NoBlock
        /\ miner = [m \in Miners |->
                      IF m = 1
                      THEN [NewMiner EXCEPT
                              !.currentBlock = [NoBlock EXCEPT !.chainLength = len,
                                                               !.utxos = utxos]]
                      ELSE NewMiner]
        /\ wallet = [m \in Miners |->
                       IF m = 1
                       THEN [NewWallet(1) EXCEPT !.coins = coins,
                                                 !.addresses = WalletAddresses]
                       ELSE NewWallet(m)]
        /\ timers = [m \in Miners |-> {}]
        /\ ticks = [m \in Miners |-> 0]
        /\ inbox = [m \in Miners |-> {}]
        /\ now = 0
        /\ crashed = NoCrash
        /\ ret = NoRet
        /\ forged = 0

\* wallet.spendUTXOsFully(amount, miner)
CallSpendUTXOsFully ==
    \E amount \in SpendAmounts :
      \E r \in {spendUTXOsFully(wallet[1], amount, miner[1].currentBlock)} :
        /\ wallet' = [wallet EXCEPT ![1] = r.w]
        /\ ret' = [op |-> "spendUTXOsFully", amount |-> amount,
                   threw |-> r.threw, inputs |-> r.inputs,
                   totalSpent |-> r.totalSpent]
        /\ UNCHANGED <<genesis, miner, timers, ticks, inbox, now, crashed,
                       forged>>

\* wallet.getCoinAgeOfWalletOnChain, of either wallet file, in thousandths
CallGetCoinAge ==
    /\ ret' = [op |-> "getCoinAgeOfWalletOnChain",
               value |-> getCoinAgeOfWalletOnChain(wallet[1], miner[1].currentBlock),
               valueSrc |-> getCoinAgeOfWalletOnChainSrc(wallet[1],
                                                         miner[1].currentBlock)]
    /\ UNCHANGED <<genesis, miner, wallet, timers, ticks, inbox, now,
                   crashed, forged>>

\* wallet.spendUTXOs(amount)
CallSpendUTXOs ==
    \E amount \in SpendAmounts :
      \E r \in {spendUTXOs(wallet[1], amount)} :
        /\ wallet' = [wallet EXCEPT ![1] = r.w]
        /\ ret' = [op |-> "spendUTXOs", amount |-> amount, threw |-> r.threw,
                   inputs |-> r.inputs, changeAmt |-> r.changeAmt]
        /\ UNCHANGED <<genesis, miner, timers, ticks, inbox, now, crashed,
                       forged>>

NextWallet ==
    \/ CallSpendUTXOsFully
    \/ CallSpendUTXOs
    \/ CallGetCoinAge

SpecWallet == InitWallet /\ [][NextWallet]_vars

(***************************************************************************)
(* Sequences of calls on a wallet as its constructor leaves it: no coins,  *)
(* no keys.  The block of spendUTXOsFully is the one miner 1 holds.        *)
(***************************************************************************)
\* keypairs made, at most
MaxAddresses == 2

InitCalls ==
    \E utxos \in SubsetsUpTo(UtxoUniverse, MaxUtxos), len \in WalletChainLengths :
        /\ genesis = NoBlock
        /\ miner = [m \in Miners |->
                      IF m = 1
                      THEN [NewMiner EXCEPT
                              !.currentBlock = [NoBlock EXCEPT !.chainLength = len,
                                                               !.utxos = utxos]]
                      ELSE NewMiner]
        /\ wallet = [m \in Miners |-> NewWallet(m)]
        /\ timers = [m \in Miners |-> {}]
        /\ ticks = [m \in Miners |-> 0]
        /\ inbox = [m \in Miners |-> {}]
        /\ now = 0
        /\ crashed = NoCrash
        /\ ret = NoRet
        /\ forged = 0

\* wallet.makeAddress()
CallMakeAddress ==
    /\ Cardinality(wallet[1].addresses) < MaxAddresses
    /\ \E r \in {makeAddress(wallet[1])} :
        /\ wallet' = [wallet EXCEPT ![1] = r.w]
        /\ ret' = [op |-> "makeAddress", value |-> r.addr]
    /\ UNCHANGED <<genesis, miner, timers, ticks, inbox, now, crashed, forged>>

\* wallet.addUTXO(utxo, txID, outputIndex)
CallAddUTXO ==
    /\ Len(wallet[1].coins) < MaxCoins
    /\ \E utxo \in UtxoUniverse :
        \E r \in {addUTXO(wallet[1], utxo, utxo.txID)} :
            /\ wallet' = [wallet EXCEPT ![1] = r.w]
            /\ ret' = [op |-> "addUTXO", address |-> utxo.address,
                       threw |-> r.threw]
    /\ UNCHANGED <<genesis, miner, timers, ticks, inbox, now, crashed, forged>>

NextCalls ==
    \/ CallMakeAddress
    \/ CallAddUTXO
    \/ CallSpendUTXOs
    \/ CallSpendUTXOsFully

SpecCalls == InitCalls /\ [][NextCalls]_vars

(***************************************************************************)
(* Properties.                                                             *)
(***************************************************************************)
\* the leading bits the miner's fingerprint shares with the hash its
\* candidate is chained on
MatchCountOf(mi, w) ==
    countMatchingBits(text2Binary(mi.currentBlock.prevBlockHash),
                      text2Binary(w.eligibility_address))

MatchCount(m) == MatchCountOf(miner[m], wallet[m])

\* miner m handles the PROOF_FOUND message msg in this step
Receives(m, msg) == msg \in inbox[m] /\ msg \notin inbox'[m]

\* in this step, startNewSearch of miner m found the miner ineligible
FailsHere(m) ==
    miner'[m].failed =
        (IF miner'[m].cycle = miner[m].cycle THEN miner[m].failed ELSE 0) + 1

\* C1: within a proposal cycle, every startNewSearch that finds the miner
\* ineligible lowers the threshold by exactly 1 (from the base value, when
\* the cycle begins in the same call) and schedules exactly one retry, one
\* backoff interval later; a cycle sees at most 3 failed attempts.
C1_FailedAttemptLowersThreshold ==
    [][\A m \in Miners :
        LET before == IF miner'[m].cycle = miner[m].cycle
                      THEN miner[m].mint_elegibility_diff_dyn
                      ELSE MINT_ELEGIBILITY_DIFFICULTY
        IN  /\ FailsHere(m) =>
                /\ miner'[m].mint_elegibility_diff_dyn = before - 1
                /\ ~miner'[m].shouldMine
                /\ timers'[m] \ timers[m] = {miner'[m].mintingTimeout}
                /\ miner'[m].mintingTimeout.due = now + TIME_UNTIL_ELIGIBILITY_DECREASE
            /\ miner'[m].failed <= MINT_ELEGIBILITY_DIFFICULTY]_vars

\* a miner is eligible after two failed attempts of one cycle
C1_Witness ==
    \E m \in Miners :
        /\ Running
        /\ miner[m].shouldMine
        /\ miner[m].failed = 2
        /\ miner[m].mint_elegibility_diff_dyn = 1

C3_ValidationFailureNeverEscapes ==
    ~(crashed.op = "receiveBlock" /\ crashed.threw = "IneligibleMinter")

\* the candidate of miner m holds no coin-age output of a positive amount
BurnSpentNothing(m) ==
    /\ miner[m].initialized
    /\ ~\E u \in miner[m].currentBlock.utxos :
          /\ u.txID = <<"ca", m, miner[m].currentBlock.chainLength>>
          /\ u.amount > 0

\* C4: a build whose coin-age burn spends nothing ends in a fatal error, and
\* from then on the miner tests no proof of the half-built candidate and
\* announces nothing.
C4_NoMiningAfterFailedBurn ==
    [][\A m \in Miners :
        /\ BurnSpentNothing(m)' => crashed'.threw \in {"NoSpendableCoinAge",
                                                        "InsufficientFunds"}
        /\ BurnSpentNothing(m) =>
            /\ miner'[m].currentBlock = miner[m].currentBlock
            /\ \A r \in Miners : \A msg \in inbox'[r] \ inbox[r] : msg.miner # m]_vars

\* the burn of a miner without aged coins spent nothing in initialize
C4_Witness ==
    \E m \in Miners :
        /\ crashed = [threw |-> "NoSpendableCoinAge", op |-> "initialize", m |-> m]
        /\ BurnSpentNothing(m)
        /\ miner[m].currentBlock.chainLength = GenesisLength + 1

\* C5: no retry timer of an earlier cycle is pending in a later cycle, so
\* none is delivered there.
C5_NoStaleRetry ==
    \A m \in Miners : \A timer \in timers[m] : timer.cycle = miner[m].cycle

\* a new cycle has begun while the retry of the cycle before was pending:
\* that timer is not due yet and is no longer pending
C5_Witness ==
    \E m \in Miners :
        /\ Running
        /\ miner[m].cycle >= 2
        /\ miner[m].mintingTimeout.cycle = miner[m].cycle - 1
        /\ miner[m].mintingTimeout.due > now
        /\ miner[m].mintingTimeout \notin timers[m]

\* C6: a cycle begun by receiveBlock keeps rewardAddress and chains the new
\* candidate on the received block; a cycle begun by initialize or by the
\* miner's own proof sets rewardAddress to an address the wallet did not
\* have before.
C6_RewardAddressAcrossCycles ==
    [][\A m \in Miners :
        miner'[m].cycle # miner[m].cycle =>
            /\ miner'[m].currentBlock.rewardAddr = miner'[m].rewardAddress
            /\ miner'[m].currentBlock.proof = 0
            /\ IF \E msg \in inbox[m] : Receives(m, msg)
               THEN \E msg \in inbox[m] :
                      /\ Receives(m, msg)
                      /\ miner'[m].rewardAddress = miner[m].rewardAddress
                      /\ miner'[m].currentBlock.prevBlockHash = msg.block.hash
                      /\ miner'[m].currentBlock # miner[m].currentBlock
               ELSE /\ miner'[m].rewardAddress \notin wallet[m].addresses
                    /\ miner'[m].rewardAddress \in wallet'[m].addresses]_vars

\* miner m builds on the block of miner o with the reward address of its
\* first cycle
C6_Witness ==
    \E m, o \in Miners :
        /\ m # o
        /\ Running
        /\ miner[m].cycle = 2
        /\ miner[m].currentBlock.prevBlockHash = BlockHash(o, GenesisLength + 1)
        /\ miner[m].rewardAddress = <<m, 2>>
        /\ miner[m].currentBlock.rewardAddr = <<m, 2>>
        /\ wallet[m].addresses = {<<m, 1>>, <<m, 2>>, <<m, 3>>, <<m, 4>>}

AgedAddresses ==
    {u.address : u \in getAllAgedUTXOsBelongingTo(miner[1].currentBlock, wallet[1])}

\* C8: every coin in the inputs returned by spendUTXOsFully has an address
\* of the aged-UTXO set the block reports for the wallet.
C8_InputsAreAged ==
    (ret.op = "spendUTXOsFully" /\ ~ret.threw) =>
        \A k \in 1..Len(ret.inputs) : ret.inputs[k].address \in AgedAddresses

\* a coin was selected after a coin in front of it was passed over for an
\* address outside the aged set
C8_Witness ==
    /\ ret.op = "spendUTXOsFully"
    /\ ~ret.threw
    /\ Len(ret.inputs) = 1
    /\ Len(wallet[1].coins) = 2
    /\ wallet[1].coins[1].address \notin AgedAddresses
    /\ ~wallet[1].coins[1].sig
    /\ wallet[1].coins[2].sig
    /\ ret.inputs[1] = wallet[1].coins[2]

\* C9 (as claimed): spendUTXOsFully of a positive amount fails with
\* InsufficientFunds whenever the wallet's balance on the block is 0,
\* whatever coins the wallet holds.
C9_NoOnChainBalanceFails ==
    (/\ ret.op = "spendUTXOsFully"
     /\ ret.amount > 0
     /\ balanceOnChain(wallet[1], miner[1].currentBlock) = 0) => ret.threw

\* C10 (as claimed): getCoinAgeOfWalletOnChain, of either wallet file,
\* returns an integer in 0..4.
C10_CoinAgeInRange ==
    ret.op = "getCoinAgeOfWalletOnChain" =>
        \A v \in {ret.value, ret.valueSrc} :
            /\ v % CoinAgeDivisor = 0
            /\ v \div CoinAgeDivisor \in 0..CoinAgeCap

\* a coin but for its signature
Unsigned(c) == [c EXCEPT !.sig = FALSE]

C12_CoinsHaveKeys ==
    [][/\ (ret'.op = "addUTXO" /\ ret'.address \notin wallet[1].addresses) =>
            /\ ret'.threw
            /\ wallet'[1].coins = wallet[1].coins
       /\ \A i \in 1..Len(wallet'[1].coins) :
            wallet'[1].coins[i].address \in wallet'[1].addresses]_vars

\* addUTXO has thrown for the address of another wallet, on a wallet that
\* holds a coin and a key
C12_Witness ==
    /\ ret.op = "addUTXO"
    /\ ret.threw
    /\ ret.address \notin wallet[1].addresses
    /\ Len(wallet[1].coins) = 1
    /\ wallet[1].addresses # {}

\* the PROOF_FOUND messages of miner m put into an inbox by the step
Announced(m) ==
    {msg \in UNION {inbox'[r] \ inbox[r] : r \in Miners} : msg.miner = m}

\* C13: whenever shouldMine is true, the leading bits that
\* currentBlock.prevBlockHash shares with the wallet's fingerprint number at
\* least the dynamic threshold; and every block announced is the candidate
\* of a miner whose shouldMine was true.
C13_MinesOnlyWhenEligible ==
    [][\A m \in Miners :
        /\ miner'[m].shouldMine =>
              MatchCountOf(miner'[m], wallet'[m]) >=
                  miner'[m].mint_elegibility_diff_dyn
        /\ \A msg \in Announced(m) :
              /\ miner[m].shouldMine
              /\ MatchCount(m) >= miner[m].mint_elegibility_diff_dyn
              /\ msg.block.prevBlockHash = miner[m].currentBlock.prevBlockHash
              /\ msg.block.chainLength = miner[m].currentBlock.chainLength
              /\ msg.block.utxos = miner[m].currentBlock.utxos]_vars

\* a miner that has announced a block is eligible for its next candidate
\* after one retry, with exactly as many matching bits as the threshold
C13_Witness ==
    \E m \in Miners :
        /\ \E r \in Miners : \E msg \in inbox[r] : msg.miner = m
        /\ miner[m].shouldMine
        /\ miner[m].failed = 1
        /\ miner[m].mint_elegibility_diff_dyn = 2
        /\ MatchCount(m) = 2

\* the blocks that can be the active view of miner m when the step enters
\* the build: the starting block of initialize, the block m announces, or
\* the block m receives
PreviousViews(m) ==
    IF ~miner[m].initialized THEN {genesis}
    ELSE {msg.block : msg \in Announced(m)}
         \cup {msg.block : msg \in {x \in inbox[m] : Receives(m, x)}}

\* C14: a build resets the threshold to the base value before the test (so
\* it ends at the base less the failed tests of the new cycle), chains the
\* candidate on the previous view, stores that view under its hash, starts
\* the proof counter at 0 and clears shouldStartNewBlock; a retry without a
\* build changes none of candidate, reward address and fingerprint.
C14_BuildResetsAndChains ==
    [][\A m \in Miners :
        /\ miner'[m].cycle # miner[m].cycle =>
            /\ miner'[m].cycle = miner[m].cycle + 1
            /\ miner'[m].mint_elegibility_diff_dyn =
                   MINT_ELEGIBILITY_DIFFICULTY - miner'[m].failed
            /\ miner'[m].currentBlock.proof = 0
            /\ ~miner'[m].shouldStartNewBlock
            /\ \E prev \in PreviousViews(m) :
                  /\ miner'[m].currentBlock.chainLength = prev.chainLength + 1
                  /\ miner'[m].currentBlock.prevBlockHash = prev.hash
                  /\ prev.hash \in DOMAIN miner'[m].previousBlocks
                  /\ miner'[m].previousBlocks[prev.hash] = prev.hash
        /\ (miner'[m].cycle = miner[m].cycle /\ timers[m] \ timers'[m] # {}) =>
            /\ miner'[m].currentBlock = miner[m].currentBlock
            /\ miner'[m].rewardAddress = miner[m].rewardAddress
            /\ wallet'[m] = wallet[m]]_vars

\* a miner in its second cycle, two blocks stored, after two retries that
\* built nothing
C14_Witness ==
    \E m \in Miners :
        /\ Running
        /\ miner[m].cycle = 2
        /\ miner[m].failed = 2
        /\ miner[m].mint_elegibility_diff_dyn = 1
        /\ miner[m].currentBlock.chainLength = GenesisLength + 2
        /\ miner[m].currentBlock.proof = 0
        /\ Cardinality(DOMAIN miner[m].previousBlocks) = 2

\* C15: the totalSpent of the burn's spendUTXOsFully is the sum of the
\* amounts of its inputs, and the one output of the coin-age transaction,
\* credited to the wallet in the same step, has that amount and an address
\* of the wallet.
C15_BurnMovesNoValue ==
    [][\A m \in Miners :
        miner'[m].cycle # miner[m].cycle =>
            LET burn == miner'[m].burn
                id == <<"ca", m, miner'[m].currentBlock.chainLength>>
                outputs == {u \in miner'[m].currentBlock.utxos : u.txID = id}
            IN  /\ burn.totalSpent = SumAmounts(burn.inputs)
                /\ crashed' = NoCrash =>
                    LET c == wallet'[m].coins[1]
                    IN  /\ c.txID = id
                        /\ c.amount = burn.totalSpent
                        /\ c.address \in wallet'[m].addresses
                        /\ c.address \notin wallet[m].addresses
                        /\ ~c.sig
                        /\ outputs = {[txID |-> id, address |-> c.address,
                                       amount |-> burn.totalSpent,
                                       chainNum |-> miner'[m].currentBlock.chainLength]}]_vars

\* after its own block a miner has burnt its coinbase and its earlier
\* coin-age output, two inputs, into one output
C15_Witness ==
    \E m \in Miners :
        /\ Running
        /\ Len(miner[m].burn.inputs) = 2
        /\ miner[m].burn.totalSpent = CoinbaseAmount + GenesisAmount
        /\ wallet[m].coins[1].amount = CoinbaseAmount + GenesisAmount
        /\ wallet[m].coins[1].txID = <<"ca", m, miner[m].currentBlock.chainLength>>

\* initialize has run to its end for miner m
InitializeDone(m) ==
    miner[m].initialized /\ ~(crashed.op = "initialize" /\ crashed.m = m)

\* C16: a findProof call tests at most NUM_ROUNDS_MINING proof values, and
\* none while shouldMine is false; a miner whose initialize is done has
\* exactly one START_MINING tick pending after every step, whether findProof
\* found a proof or not and whether it ran on a tick or was called with
\* oneAndDone, which schedules none.
C16_BoundedBatchOneTick ==
    [][\A m \in Miners :
        /\ ticks'[m] = IF InitializeDone(m)' THEN 1 ELSE 0
        /\ miner'[m].cycle = miner[m].cycle =>
              /\ miner'[m].currentBlock.proof - miner[m].currentBlock.proof
                    \in 0..NUM_ROUNDS_MINING
              /\ ~miner[m].shouldMine =>
                    miner'[m].currentBlock.proof = miner[m].currentBlock.proof
        /\ \A msg \in Announced(m) :
              /\ miner[m].shouldMine
              /\ msg.block.proof - miner[m].currentBlock.proof
                    \in 0..(NUM_ROUNDS_MINING - 1)]_vars

\* one miner has gone through a whole batch without a proof, the other has
\* found one; each has its one tick pending
C16_Witness ==
    \E m, o \in Miners :
        /\ Running
        /\ miner[m].shouldMine
        /\ miner[m].currentBlock.proof = NUM_ROUNDS_MINING
        /\ ticks[m] = 1
        /\ \E msg \in inbox[m] : msg.miner = o /\ msg.block.proof = NUM_ROUNDS_MINING - 1
        /\ ticks[o] = 1

\* C17: in the step in which findProof finds a proof, every miner gets one
\* PROOF_FOUND message; its block is the old candidate with the proof that
\* passed the check and was never announced or stored before; the coinbase
\* was credited before the new cycle began, whose burn has spent it; and
\* the miner is left with a new candidate on top of the announced block,
\* its proof counter at 0.
C17_FoundProofSteps ==
    [][\A m \in Miners :
        Announced(m) # {} =>
            \E msg \in Announced(m) :
                LET b == msg.block
                    old == miner[m].currentBlock
                    coins == wallet'[m].coins
                IN  /\ \A r \in Miners : inbox'[r] \ inbox[r] = {msg}
                    /\ verifyProof(b)
                    /\ b = [old EXCEPT !.proof = b.proof, !.validProof = TRUE,
                                       !.hash = b.hash]
                    /\ b.proof >= old.proof
                    /\ \A r \in Miners :
                          /\ b.hash \notin DOMAIN miner[r].previousBlocks
                          /\ \A x \in inbox[r] : x.block.hash # b.hash
                    /\ miner'[m].cycle = miner[m].cycle + 1
                    /\ miner'[m].currentBlock.prevBlockHash = b.hash
                    /\ miner'[m].currentBlock.chainLength = b.chainLength + 1
                    /\ miner'[m].currentBlock.proof = 0
                    /\ Len(coins) = Len(wallet[m].coins) + 2
                    /\ coins[1].txID = <<"ca", m, b.chainLength + 1>>
                    /\ coins[2] = [address |-> old.rewardAddr,
                                   amount |-> CoinbaseAmount,
                                   txID |-> <<"cb", m, b.chainLength>>,
                                   sig |-> TRUE]]_vars

\* a miner has found a proof: both miners hold its message, its wallet
\* holds the coinbase under the new coin-age output, and it is in its
\* second cycle
C17_Witness ==
    \E m \in Miners :
        /\ Running
        /\ miner[m].cycle = 2
        /\ miner[m].currentBlock.proof = 0
        /\ miner[m].currentBlock.prevBlockHash = BlockHash(m, GenesisLength + 1)
        /\ \A r \in Miners :
              \E msg \in inbox[r] :
                  /\ msg.miner = m
                  /\ msg.block.validProof
                  /\ msg.block.hash = BlockHash(m, GenesisLength + 1)
        /\ wallet[m].coins[2].txID = <<"cb", m, GenesisLength + 1>>
        /\ wallet[m].coins[2].sig

\* C18 (as claimed): a received block whose proof does not verify is
\* dropped without effect: receiveBlock returns, the run goes on, and the
\* miner's fields, its wallet and its pending retry timers are as before.
C18_InvalidProofDropped ==
    [][\A m \in Miners : \A msg \in inbox[m] :
        (Receives(m, msg) /\ ~verifyProof(msg.block)) =>
            /\ crashed' = NoCrash
            /\ miner'[m] = miner[m]
            /\ wallet'[m] = wallet[m]
            /\ timers'[m] = timers[m]]_vars

\* C19: no step takes a key out of previousBlocks or changes what is stored
\* under it; a block that passes validation in receiveBlock is stored under
\* its hash, and so is the view a new candidate replaces.
C19_PreviousBlocksOnlyGrows ==
    [][\A m \in Miners :
        /\ \A h \in DOMAIN miner[m].previousBlocks :
              /\ h \in DOMAIN miner'[m].previousBlocks
              /\ miner'[m].previousBlocks[h] = miner[m].previousBlocks[h]
        /\ \A msg \in inbox[m] :
              (/\ Receives(m, msg)
               /\ isValidBlock(msg.block, wallet[msg.miner], now) = "true") =>
                  msg.block.hash \in DOMAIN miner'[m].previousBlocks
        /\ miner'[m].cycle # miner[m].cycle =>
              \A prev \in PreviousViews(m) :
                  prev.hash \in DOMAIN miner'[m].previousBlocks]_vars

\* a miner building on its own block has stored the genesis block, its own
\* block and the other miner's block of the same length, which it did not
\* adopt
C19_Witness ==
    \E m, o \in Miners :
        /\ m # o
        /\ Running
        /\ miner[m].currentBlock.prevBlockHash = BlockHash(m, GenesisLength + 1)
        /\ DOMAIN miner[m].previousBlocks =
              {genesis.hash, BlockHash(m, GenesisLength + 1),
               BlockHash(o, GenesisLength + 1)}

\* C20: the dynamic threshold is always an integer from 0 to the base
\* value; it is lowered only by a failed test, which leaves it no lower
\* than the match count, itself never negative.
C20_ThresholdInRange ==
    /\ \A m \in Miners :
          miner[m].mint_elegibility_diff_dyn \in 0..MINT_ELEGIBILITY_DIFFICULTY
    /\ [][\A m \in Miners :
            /\ miner'[m].mint_elegibility_diff_dyn
                  \in 0..MINT_ELEGIBILITY_DIFFICULTY
            /\ miner'[m].mint_elegibility_diff_dyn < miner[m].mint_elegibility_diff_dyn
                  => FailsHere(m)
            /\ FailsHere(m) =>
                  MatchCountOf(miner'[m], wallet'[m])
                      \in 0..miner'[m].mint_elegibility_diff_dyn]_vars

\* a miner that adopted the other's block has failed the test twice since,
\* after failing it in its first cycle too
C20_Witness ==
    \E m, o \in Miners :
        /\ m # o
        /\ Running
        /\ miner[m].cycle = 2
        /\ miner[m].currentBlock.prevBlockHash = BlockHash(o, GenesisLength + 1)
        /\ miner[m].failed = 2
        /\ miner[m].mint_elegibility_diff_dyn = 1
        /\ ~miner[m].shouldMine

\* C21: no step lowers the chain length of a miner's current block, and
\* every step that begins a proposal cycle (initialize, the miner's own
\* found proof, the adoption of a received block) raises it; a received
\* block leaves the miner on a chain at least as long as before.
C21_ChainLengthGrows ==
    [][\A m \in Miners :
        /\ miner'[m].currentBlock.chainLength >= miner[m].currentBlock.chainLength
        /\ miner'[m].cycle # miner[m].cycle =>
              miner'[m].currentBlock.chainLength > miner[m].currentBlock.chainLength
        /\ miner'[m].currentBlock.prevBlockHash # miner[m].currentBlock.prevBlockHash
              => miner'[m].cycle = miner[m].cycle + 1
        /\ \A msg \in inbox[m] :
              Receives(m, msg) /\ miner'[m].currentBlock # miner[m].currentBlock =>
                  /\ miner'[m].currentBlock.chainLength = msg.block.chainLength + 1
                  /\ msg.block.chainLength >= miner[m].currentBlock.chainLength]_vars

\* a miner that found a block and began its second cycle on it has then
\* handled the other's block of the lower height: it has stored the block
\* and is still on its own, longer chain
C21_Witness ==
    \E m, o \in Miners :
        /\ m # o
        /\ Running
        /\ miner[m].cycle = 2
        /\ BlockHash(o, GenesisLength + 1) \in DOMAIN miner[m].previousBlocks
        /\ miner[m].currentBlock.prevBlockHash = BlockHash(m, GenesisLength + 1)
        /\ miner[m].currentBlock.chainLength = GenesisLength + 2
        /\ inbox[m] = {}

\* C22 (as claimed): a block found by a miner that was eligible for it is
\* never rejected as IneligibleMinter: whenever a peer handles the pending
\* PROOF_FOUND message, the sender's fingerprint as the peer reads it
\* passes the time-adjusted eligibility test of isValidBlock.
C22_FoundWhileEligibleNeverRejected ==
    \A r \in Miners : \A msg \in inbox[r] :
        verifyProof(msg.block) =>
            isValidBlock(msg.block, wallet[msg.miner], now) # "throw"

\* every miner has handled every PROOF_FOUND message sent so far, and every
\* announced block has passed validation
AllHandled ==
    /\ Running
    /\ AllInitialized
    /\ \A m \in Miners : inbox[m] = {}

\* C23 (as claimed): when every miner has handled every PROOF_FOUND message
\* sent so far and every block has passed validation, all miners'
\* candidates have the same prevBlockHash and the same chainLength.
C23_SameTipWhenAllHandled ==
    AllHandled =>
        \A m, o \in Miners :
            /\ miner[m].currentBlock.prevBlockHash =
                   miner[o].currentBlock.prevBlockHash
            /\ miner[m].currentBlock.chainLength = miner[o].currentBlock.chainLength

\* C23: when every miner has handled every PROOF_FOUND message sent so far
\* and every block has passed validation, all miners' candidates have the
\* same chainLength, and two candidates with different prevBlockHash are
\* chained on blocks of the same height found by different miners.
C23_SameHeightWhenAllHandled ==
    AllHandled =>
        \A m, o \in Miners :
            LET cm == miner[m].currentBlock
                co == miner[o].currentBlock
            IN  /\ cm.chainLength = co.chainLength
                /\ cm.prevBlockHash # co.prevBlockHash =>
                      \E x, y \in Miners :
                          /\ x # y
                          /\ cm.prevBlockHash = BlockHash(x, cm.chainLength - 1)
                          /\ co.prevBlockHash = BlockHash(y, co.chainLength - 1)

\* two miners have found blocks of the same height, each has handled both
\* announcements, and each candidate is chained on the miner's own block
C23_Witness ==
    /\ AllHandled
    /\ \A m \in Miners :
          /\ miner[m].currentBlock.prevBlockHash = BlockHash(m, GenesisLength + 1)
          /\ \A o \in Miners :
                BlockHash(o, GenesisLength + 1) \in DOMAIN miner[m].previousBlocks

\* C24: while no fatal error has occurred, an initialized miner is, between
\* handlers, in one of two situations: shouldMine is true and no retry timer
\* is pending, or shouldMine is false and exactly one retry timer is pending,
\* the one mintingTimeout refers to.
C24_MiningOrOneRetryPending ==
    \A m \in Miners :
        (Running /\ miner[m].initialized) =>
            \/ /\ miner[m].shouldMine
               /\ timers[m] = {}
            \/ /\ ~miner[m].shouldMine
               /\ Cardinality(timers[m]) = 1
               /\ timers[m] = {miner[m].mintingTimeout}

\* one miner has begun a second cycle, failed its test and waits on the one
\* retry of that cycle; the other became eligible on its first retry and has
\* none pending
C24_Witness ==
    \E m, o \in Miners :
        /\ m # o
        /\ Running
        /\ miner[m].cycle = 2
        /\ ~miner[m].shouldMine
        /\ timers[m] = {miner[m].mintingTimeout}
        /\ miner[m].mintingTimeout.cycle = 2
        /\ miner[o].shouldMine
        /\ miner[o].failed = 1
        /\ timers[o] = {}

====
